---- MODULE Spec2Model ----
(***************************************************************************)
(* A model of orcsome's event dispatch and handler registries              *)
(* (src/orcsome/wm.py, the newer implementation; src/orcsome/core.py is    *)
(* the older one and shares the cleaner and the destroy path).             *)
(*                                                                         *)
(* Python dictionaries are functions with a finite domain, Python lists    *)
(* are sequences.  A user callback is a function identifier; what it does  *)
(* when it is invoked (return, raise, call a removal capability) is an     *)
(* input of the step that invokes it.                                      *)
(***************************************************************************)
EXTENDS Integers, Sequences, FiniteSets, TLC

(* ------------------------------ bounds -------------------------------- *)
MaxWindow == 2
MaxAtom == 2
MaxHandler == 2
MaxSignal == 2
MaxReg == 2
MaxPending == 2
MaxFifo == 2
MaxBlocked == 1

(* ------------------------- program constants -------------------------- *)
ShiftMask == 1
LockMask == 2
ControlMask == 4
Mod1Mask == 8
Mod2Mask == 16
Mod4Mask == 64
NoSymbol == 0
Root == 0
None == -1
GrabSuccess == 0
AlreadyGrabbed == 1
PropertyNewValue == 0
PropertyDelete == 1

Windows == 1..MaxWindow
Atoms == 1..MaxAtom
Handlers == 1..MaxHandler
Signals == 1..MaxSignal

(* ------------------------------ helpers ------------------------------- *)
RECURSIVE BitOr(_, _)
BitOr(a, b) ==
  IF a = 0 THEN b
  ELSE IF b = 0 THEN a
  ELSE (IF a % 2 = 1 \/ b % 2 = 1 THEN 1 ELSE 0) + 2 * BitOr(a \div 2, b \div 2)

EmptyDict == << >>
Has(d, k) == k \in DOMAIN d
Put(d, k, v) == [x \in (DOMAIN d) \cup {k} |-> IF x = k THEN v ELSE d[x]]
Del(d, k) == [x \in (DOMAIN d) \ {k} |-> d[x]]
Get(d, k, dflt) == IF Has(d, k) THEN d[k] ELSE dflt

InList(L, x) == \E i \in 1..Len(L) : L[i] = x
IndexOf(L, x) == CHOOSE i \in 1..Len(L) : L[i] = x /\ \A j \in 1..(i - 1) : L[j] # x
\* list.remove(x): drops the first occurrence
ListRemove(L, x) ==
  LET i == IndexOf(L, x) IN [j \in 1..(Len(L) - 1) |-> IF j < i THEN L[j] ELSE L[j + 1]]
Count(L, x) == Cardinality({i \in 1..Len(L) : L[i] = x})

(* --------------------------- key-spec tables --------------------------- *)
MODIFICATORS ==
  [Alt |-> Mod1Mask, Control |-> ControlMask, Ctrl |-> ControlMask,
   Shift |-> ShiftMask, Win |-> Mod4Mask, Mod |-> Mod4Mask]

\* the ignorable masks without the combination of both locks
IgnoredModMasksNoBoth == <<0, LockMask, Mod2Mask>>

IGNORED_MOD_MASKS == <<0, LockMask, Mod2Mask, BitOr(LockMask, Mod2Mask)>>

\* the display's key tables: name -> keysym -> keycode
XStringToKeysym(key) == IF key = "a" THEN 97 ELSE IF key = "t" THEN 116 ELSE NoSymbol
XKeysymToKeycode(sym) == IF sym = 97 THEN 38 ELSE IF sym = 116 THEN 28 ELSE 0

\* keydef.split('+') of the key-specs the model registers
KeyDefs == { <<"a">>, <<"Ctrl", "a">>, <<"Bogus", "a">>, <<"Ctrl", "NoSuchKey">> }

(* ------------------------------- state -------------------------------- *)
VARIABLES
  key_handlers,           \* window -> ((mask, code) -> func)
  property_handlers,      \* atom -> (window or None -> list of func)
  create_handlers,        \* list of creation listeners
  destroy_handlers,       \* window -> list of func
  signal_handlers,        \* signal name -> list of func
  grab_keyboard_handler,  \* func or None
  grab_pointer_handler,   \* func or None
  focus_history,          \* list of windows
  init_handlers,          \* list of func, run by init()
  deinit_handlers,        \* list of func, run by stop()
  startup,                \* "unset" before init(), then "true" / "false"
  xgrabs,                 \* key grabs requested from the display: {<<window, mask, code>>}
  caps,                   \* the remove() closures handed out so far
  nreg,                   \* registrations made so far
  pending,                \* events queued on the display connection
  xqueue,                 \* the mark each queued event carries, oldest first
  took,                   \* the mark of the event the last step dispatched, 0: none
  fifo,                   \* signal names written to the pipe, not yet read
  wblocked,               \* signal names of emit() calls waiting in os.write(wfifo)
  rfifoReady,             \* rfifo was in select()'s readable list
  pc,                     \* where the dispatcher is
  ev,                     \* the last step taken
  trace,                  \* what the last step invoked, in order
  ret                     \* its result

regs == <<key_handlers, property_handlers, create_handlers, destroy_handlers, signal_handlers>>
slots == <<grab_keyboard_handler, grab_pointer_handler>>
hooks == <<init_handlers, deinit_handlers>>
loopv == <<pending, fifo, wblocked, rfifoReady, pc>>
vars == <<key_handlers, property_handlers, create_handlers, destroy_handlers, signal_handlers,
          grab_keyboard_handler, grab_pointer_handler, focus_history, init_handlers,
          deinit_handlers, startup, xgrabs,
          caps, nreg, pending, xqueue, took, fifo, wblocked, rfifoReady, pc, ev, trace, ret>>

\* a creation listener as stored in create_handlers: the user function f, wrapped by a
\* matcher check (m # 0) and by the startup check (skip)
Entry(f, m, skip) == [f |-> f, m |-> m, skip |-> skip]
NoEntry == Entry(0, 0, FALSE)

\* a remove() closure
Cap(kind, f, w, keys, props, s, e) ==
  [kind |-> kind, f |-> f, w |-> w, keys |-> keys, props |-> props, s |-> s, e |-> e]
NoCap == Cap("none", 0, None, << >>, << >>, 0, NoEntry)

\* the last step: an API call (f the function passed, cap the closure called), a
\* dispatched event (w, atom, state, code as the event carries them), init() (clients:
\* the client list it replayed), bind_key (keydef: the key-spec split at '+', state and
\* code what it resolved to) or a step of the loop
Ev(kind, w, atom, state, code, f) ==
  [kind |-> kind, w |-> w, atom |-> atom, state |-> state, code |-> code, f |-> f,
   cap |-> NoCap, clients |-> << >>, keydef |-> << >>]

\* one line of the trace: op is what ran ("call": a user callback f, "entry": a creation
\* listener e, "grab": the keyboard grab handler, "clean": the cleaner, or a request to the
\* display), w the event window, su the startup flag then, b what the callback did and c
\* the removal capability it called
Tr(op, f, e, w, su, b, c) ==
  [op |-> op, f |-> f, e |-> e, w |-> w, su |-> su, b |-> b, c |-> c]

Init ==
  /\ key_handlers = EmptyDict
  /\ property_handlers = EmptyDict
  /\ create_handlers = << >>
  /\ destroy_handlers = EmptyDict
  /\ signal_handlers = EmptyDict
  /\ grab_keyboard_handler = None
  /\ grab_pointer_handler = None
  /\ focus_history = << >>
  /\ startup = "unset"
  /\ xgrabs = {}
  /\ caps = {}
  /\ nreg = 0
  /\ pending = 0
  /\ fifo = << >>
  /\ wblocked = << >>
  /\ xqueue = << >>
  /\ took = 0
  /\ init_handlers = << >>
  /\ deinit_handlers = << >>
  /\ rfifoReady = FALSE
  /\ pc = "new"
  /\ ev = Ev("construct", None, 0, 0, 0, 0)
  /\ trace = << >>
  /\ ret = "ok"

Alive == pc \in {"new", "select", "drain", "fifo"}

\* the registries a step works on, with the trace it leaves
Regs == [key |-> key_handlers, prop |-> property_handlers, create |-> create_handlers,
         destroy |-> destroy_handlers, sig |-> signal_handlers, focus |-> focus_history,
         trace |-> << >>]

Commit(r) ==
  /\ key_handlers' = r.key
  /\ property_handlers' = r.prop
  /\ create_handlers' = r.create
  /\ destroy_handlers' = r.destroy
  /\ signal_handlers' = r.sig
  /\ focus_history' = r.focus
  /\ trace' = r.trace

Log(r, t) == [r EXCEPT !.trace = Append(@, t)]

(* ------------------------ removal capabilities ------------------------- *)
\* for k in keys: del self.key_handlers[window][k]
RECURSIVE DelKeys(_, _, _, _)
DelKeys(kh, w, keys, i) ==
  IF i > Len(keys) THEN [d |-> kh, ok |-> TRUE]
  ELSE IF ~Has(kh, w) \/ ~Has(kh[w], keys[i]) THEN [d |-> kh, ok |-> FALSE]
  ELSE DelKeys(Put(kh, w, Del(kh[w], keys[i])), w, keys, i + 1)

\* for p in props: self.property_handlers[atom][window].remove(func)
RECURSIVE DelProps(_, _, _, _, _)
DelProps(ph, w, props, f, i) ==
  IF i > Len(props) THEN [d |-> ph, ok |-> TRUE]
  ELSE LET a == props[i] IN
       IF ~Has(ph, a) \/ ~Has(ph[a], w) \/ ~InList(ph[a][w], f) THEN [d |-> ph, ok |-> FALSE]
       ELSE DelProps(Put(ph, a, Put(ph[a], w, ListRemove(ph[a][w], f))), w, props, f, i + 1)

\* self.create_handlers.remove(func)
DelCreate(ch, e) ==
  IF InList(ch, e) THEN [d |-> ListRemove(ch, e), ok |-> TRUE] ELSE [d |-> ch, ok |-> FALSE]

\* self.signal_handlers[signal].remove(func)
DelSignal(sh, s, f) ==
  IF Has(sh, s) /\ InList(sh[s], f)
  THEN [d |-> Put(sh, s, ListRemove(sh[s], f)), ok |-> TRUE]
  ELSE [d |-> sh, ok |-> FALSE]

\* calling the closure c on the registries r: ok = FALSE when it raises (KeyError, ValueError)
ApplyRemove(r, c) ==
  IF c.kind = "key" THEN
    LET x == DelKeys(r.key, c.w, c.keys, 1) IN [r |-> [r EXCEPT !.key = x.d], ok |-> x.ok]
  ELSE IF c.kind = "prop" THEN
    LET x == DelProps(r.prop, c.w, c.props, c.f, 1) IN [r |-> [r EXCEPT !.prop = x.d], ok |-> x.ok]
  ELSE IF c.kind = "create" THEN
    LET x == DelCreate(r.create, c.e) IN [r |-> [r EXCEPT !.create = x.d], ok |-> x.ok]
  ELSE
    LET x == DelSignal(r.sig, c.s, c.f) IN [r |-> [r EXCEPT !.sig = x.d], ok |-> x.ok]

(* --------------------------- registration ------------------------------ *)
\* modmask |= MODIFICATORS[m] for m in mod; -1 stands for the KeyError branch
RECURSIVE ModMask(_, _, _)
ModMask(mod, i, acc) ==
  IF i > Len(mod) THEN acc
  ELSE IF mod[i] \notin DOMAIN MODIFICATORS THEN -1
  ELSE ModMask(mod, i + 1, BitOr(acc, MODIFICATORS[mod[i]]))

\* the (mask, code) pairs inner() registers, in order
ExpandKeys(modmask, code) ==
  [i \in 1..Len(IGNORED_MOD_MASKS) |-> <<BitOr(modmask, IGNORED_MOD_MASKS[i]), code>>]

RECURSIVE PutKeys(_, _, _, _, _)
PutKeys(kh, w, keys, f, i) ==
  IF i > Len(keys) THEN kh
  ELSE PutKeys(Put(kh, w, Put(Get(kh, w, EmptyDict), keys[i], f)), w, keys, f, i + 1)

\* bind_key without the check of the key symbol
KeyDefValidNoSymbolCheck(kd) ==
  ModMask(SubSeq(kd, 1, Len(kd) - 1), 1, 0) # -1

KeyDefValid(kd) ==
  /\ ModMask(SubSeq(kd, 1, Len(kd) - 1), 1, 0) # -1
  /\ XStringToKeysym(kd[Len(kd)]) # NoSymbol

\* wm.on_key(w, keydef)(f) / wm.bind_key(w, keydef)(f)
BindKey(w, kd, f) ==
  /\ Alive
  /\ ev' = [(IF KeyDefValid(kd)
             THEN Ev("bind_key", w, 0, ModMask(SubSeq(kd, 1, Len(kd) - 1), 1, 0),
                     XKeysymToKeycode(XStringToKeysym(kd[Len(kd)])), f)
             ELSE Ev("bind_key", w, 0, 0, 0, f)) EXCEPT !.keydef = kd]
  /\ trace' = << >>
  /\ UNCHANGED <<property_handlers, create_handlers, destroy_handlers, signal_handlers,
                 slots, focus_history, startup, loopv>>
  /\ IF KeyDefValid(kd)
     THEN LET modmask == ModMask(SubSeq(kd, 1, Len(kd) - 1), 1, 0)
              code == XKeysymToKeycode(XStringToKeysym(kd[Len(kd)]))
              keys == ExpandKeys(modmask, code)
          IN /\ nreg < MaxReg
             /\ nreg' = nreg + 1
             /\ xgrabs' = xgrabs \cup {<<w, keys[i][1], keys[i][2]>> : i \in 1..Len(keys)}
             /\ key_handlers' = PutKeys(key_handlers, w, keys, f, 1)
             /\ caps' = caps \cup {Cap("key", f, w, keys, << >>, 0, NoEntry)}
             /\ ret' = "ok"
     ELSE /\ UNCHANGED <<key_handlers, xgrabs, caps, nreg>>
          /\ ret' = "invalid"
  /\ UNCHANGED hooks
  /\ took' = 0 /\ UNCHANGED xqueue

\* wm.on_create(**matchers)(f) (skip = TRUE) / wm.on_manage(**matchers)(f) (skip = FALSE)
OnCreate(skip, m, f) ==
  /\ Alive
  /\ nreg < MaxReg
  /\ nreg' = nreg + 1
  /\ create_handlers' = Append(create_handlers, Entry(f, m, skip))
  /\ caps' = caps \cup {Cap("create", f, None, << >>, << >>, 0, Entry(f, m, skip))}
  /\ ev' = Ev("on_create", None, 0, 0, 0, f)
  /\ trace' = << >>
  /\ ret' = "ok"
  /\ UNCHANGED <<key_handlers, property_handlers, destroy_handlers, signal_handlers,
                 slots, focus_history, startup, xgrabs, loopv>>
  /\ UNCHANGED hooks
  /\ took' = 0 /\ UNCHANGED xqueue

\* wm.on_destroy(w)(f)
OnDestroy(w, f) ==
  /\ Alive
  /\ nreg < MaxReg
  /\ nreg' = nreg + 1
  /\ destroy_handlers' = Put(destroy_handlers, w, Append(Get(destroy_handlers, w, << >>), f))
  /\ ev' = Ev("on_destroy", w, 0, 0, 0, f)
  /\ trace' = << >>
  /\ ret' = "ok"
  /\ UNCHANGED <<key_handlers, property_handlers, create_handlers, signal_handlers,
                 slots, focus_history, startup, xgrabs, caps, loopv>>
  /\ UNCHANGED hooks
  /\ took' = 0 /\ UNCHANGED xqueue

RECURSIVE PutProps(_, _, _, _, _)
PutProps(ph, w, props, f, i) ==
  IF i > Len(props) THEN ph
  ELSE LET a == props[i]
           d == Get(ph, a, EmptyDict)
       IN PutProps(Put(ph, a, Put(d, w, Append(Get(d, w, << >>), f))), w, props, f, i + 1)

\* the property lists the model registers with
PropLists == {<<a>> : a \in Atoms} \cup {p \in Atoms \X Atoms : p[1] < p[2]}

\* wm.on_property_change([w,] *props)(f); w = None is the global form
OnPropertyChange(w, props, f) ==
  /\ Alive
  /\ nreg < MaxReg
  /\ nreg' = nreg + 1
  /\ property_handlers' = PutProps(property_handlers, w, props, f, 1)
  /\ caps' = caps \cup {Cap("prop", f, w, << >>, props, 0, NoEntry)}
  /\ ev' = Ev("on_property_change", w, props[1], 0, 0, f)
  /\ trace' = << >>
  /\ ret' = "ok"
  /\ UNCHANGED <<key_handlers, create_handlers, destroy_handlers, signal_handlers,
                 slots, focus_history, startup, xgrabs, loopv>>
  /\ UNCHANGED hooks
  /\ took' = 0 /\ UNCHANGED xqueue

\* wm.on_signal(s)(f)
OnSignal(s, f) ==
  /\ Alive
  /\ nreg < MaxReg
  /\ nreg' = nreg + 1
  /\ signal_handlers' = Put(signal_handlers, s, Append(Get(signal_handlers, s, << >>), f))
  /\ caps' = caps \cup {Cap("signal", f, None, << >>, << >>, s, NoEntry)}
  /\ ev' = Ev("on_signal", None, 0, 0, 0, f)
  /\ trace' = << >>
  /\ ret' = "ok"
  /\ UNCHANGED <<key_handlers, property_handlers, create_handlers, destroy_handlers,
                 slots, focus_history, startup, xgrabs, loopv>>
  /\ UNCHANGED hooks
  /\ took' = 0 /\ UNCHANGED xqueue

\* f.remove(), called outside of a handler
Remove(c) ==
  /\ Alive
  /\ c \in caps
  /\ LET x == ApplyRemove(Regs, c) IN
       /\ Commit(x.r)
       /\ ret' = IF x.ok THEN "ok" ELSE "fault"
  /\ ev' = [Ev("remove", c.w, 0, 0, 0, c.f) EXCEPT !.cap = c]
  /\ UNCHANGED <<slots, startup, xgrabs, caps, nreg, loopv>>
  /\ UNCHANGED hooks
  /\ took' = 0 /\ UNCHANGED xqueue

\* wm.on_init(f)
OnInit(f) ==
  /\ Alive
  /\ nreg < MaxReg
  /\ nreg' = nreg + 1
  /\ init_handlers' = Append(init_handlers, f)
  /\ ev' = Ev("on_init", None, 0, 0, 0, f)
  /\ trace' = << >>
  /\ ret' = "ok"
  /\ UNCHANGED <<regs, deinit_handlers, slots, focus_history, startup, xgrabs, caps, loopv>>
  /\ took' = 0 /\ UNCHANGED xqueue

\* wm.on_deinit(f)
OnDeinit(f) ==
  /\ Alive
  /\ nreg < MaxReg
  /\ nreg' = nreg + 1
  /\ deinit_handlers' = Append(deinit_handlers, f)
  /\ ev' = Ev("on_deinit", None, 0, 0, 0, f)
  /\ trace' = << >>
  /\ ret' = "ok"
  /\ UNCHANGED <<regs, init_handlers, slots, focus_history, startup, xgrabs, caps, loopv>>
  /\ took' = 0 /\ UNCHANGED xqueue

(* ------------------------------ grab slots ----------------------------- *)
\* grab_keyboard without the check of the slot
GrabKeyboardNoHeldCheck(f, result) ==
  /\ Alive
  /\ trace' = <<Tr("XGrabKeyboard", f, NoEntry, Root, startup, "-", NoCap)>>
  /\ IF result = GrabSuccess
     THEN grab_keyboard_handler' = f /\ ret' = "True"
     ELSE UNCHANGED grab_keyboard_handler /\ ret' = "False"
  /\ ev' = Ev("grab_keyboard", None, 0, result, 0, f)
  /\ UNCHANGED <<regs, grab_pointer_handler, focus_history, startup, xgrabs, caps, nreg, loopv>>
  /\ UNCHANGED hooks
  /\ took' = 0 /\ UNCHANGED xqueue

\* wm.grab_keyboard(f); result is what XGrabKeyboard answers
GrabKeyboard(f, result) ==
  /\ Alive
  /\ IF grab_keyboard_handler # None
     THEN /\ ret' = "False"
          /\ trace' = << >>
          /\ UNCHANGED grab_keyboard_handler
     ELSE /\ trace' = <<Tr("XGrabKeyboard", f, NoEntry, Root, startup, "-", NoCap)>>
          /\ IF result = GrabSuccess
             THEN grab_keyboard_handler' = f /\ ret' = "True"
             ELSE UNCHANGED grab_keyboard_handler /\ ret' = "False"
  /\ ev' = Ev("grab_keyboard", None, 0, result, 0, f)
  /\ UNCHANGED <<regs, grab_pointer_handler, focus_history, startup, xgrabs, caps, nreg, loopv>>
  /\ UNCHANGED hooks
  /\ took' = 0 /\ UNCHANGED xqueue

\* wm.ungrab_keyboard()
UngrabKeyboard ==
  /\ Alive
  /\ grab_keyboard_handler' = None
  /\ trace' = <<Tr("XUngrabKeyboard", 0, NoEntry, Root, startup, "-", NoCap)>>
  /\ ret' = "ok"
  /\ ev' = Ev("ungrab_keyboard", None, 0, 0, 0, 0)
  /\ UNCHANGED <<regs, grab_pointer_handler, focus_history, startup, xgrabs, caps, nreg, loopv>>
  /\ UNCHANGED hooks
  /\ took' = 0 /\ UNCHANGED xqueue

\* wm.grab_pointer(f); result is what XGrabPointer answers
GrabPointer(f, result) ==
  /\ Alive
  /\ IF grab_pointer_handler # None
     THEN /\ ret' = "False"
          /\ trace' = << >>
          /\ UNCHANGED grab_pointer_handler
     ELSE /\ trace' = <<Tr("XGrabPointer", f, NoEntry, Root, startup, "-", NoCap)>>
          /\ IF result = GrabSuccess
             THEN grab_pointer_handler' = f /\ ret' = "True"
             ELSE UNCHANGED grab_pointer_handler /\ ret' = "False"
  /\ ev' = Ev("grab_pointer", None, 0, result, 0, f)
  /\ UNCHANGED <<regs, grab_keyboard_handler, focus_history, startup, xgrabs, caps, nreg, loopv>>
  /\ UNCHANGED hooks
  /\ took' = 0 /\ UNCHANGED xqueue

\* wm.ungrab_pointer()
UngrabPointer ==
  /\ Alive
  /\ grab_pointer_handler' = None
  /\ trace' = <<Tr("XUngrabPointer", 0, NoEntry, Root, startup, "-", NoCap)>>
  /\ ret' = "ok"
  /\ ev' = Ev("ungrab_pointer", None, 0, 0, 0, 0)
  /\ UNCHANGED <<regs, grab_keyboard_handler, focus_history, startup, xgrabs, caps, nreg, loopv>>
  /\ UNCHANGED hooks
  /\ took' = 0 /\ UNCHANGED xqueue

(* --------------------------- handler chains ---------------------------- *)
\* what a user callback does when it is invoked
Beh(k, c) == [k |-> k, c |-> c]
BehsOf(f) ==
  {Beh(k, NoCap) : k \in {"ok", "fault", "stop", "restart"}}
    \cup {Beh("remove", c) : c \in {x \in caps : x.f = f}}
\* one behaviour for each function of F
Scripts(F) ==
  {b \in [F -> UNION {BehsOf(f) : f \in F}] : \A f \in F : b[f] \in BehsOf(f)}

\* f(): out is "ok" when it returns, else the fault it raises
Call(r, op, f, b, su, w) ==
  LET r1 == Log(r, Tr(op, f, NoEntry, w, su, b.k, b.c)) IN
  IF b.k = "remove"
  THEN LET x == ApplyRemove(r1, b.c) IN [r |-> x.r, out |-> IF x.ok THEN "ok" ELSE "fault"]
  ELSE [r |-> r1, out |-> b.k]

\* window.matches(**matchers): matcher m selects the window m
Matchers == {0, 1}
Matches(w, m) == w = m

\* a creation listener registered without the startup check
InvokeEntryNoSkip(r, e, beh, su, w) ==
  LET r1 == Log(r, Tr("entry", e.f, e, w, su, "-", NoCap)) IN
  IF e.m # 0 /\ ~Matches(w, e.m) THEN [r |-> r1, out |-> "ok"]
  ELSE Call(r1, "call", e.f, beh[e.f], su, w)

\* a creation listener: lambda: self.startup or (matches(**matchers) and ofunc())
InvokeEntry(r, e, beh, su, w) ==
  LET r1 == Log(r, Tr("entry", e.f, e, w, su, "-", NoCap)) IN
  IF e.skip /\ su = "true" THEN [r |-> r1, out |-> "ok"]
  ELSE IF e.m # 0 /\ ~Matches(w, e.m) THEN [r |-> r1, out |-> "ok"]
  ELSE Call(r1, "call", e.f, beh[e.f], su, w)

Sel(kind, a, w, s) == [kind |-> kind, a |-> a, w |-> w, s |-> s]
\* the list object a for-loop iterates
ChainOf(r, sel) ==
  IF sel.kind = "create" THEN r.create
  ELSE IF sel.kind = "prop" THEN r.prop[sel.a][sel.w]
  ELSE IF sel.kind = "destroy" THEN r.destroy[sel.w]
  ELSE r.sig[sel.s]

\* for h in <list>: h() -- the list is read by index while the handlers change it;
\* isolate: the call sits in try/except that logs an unrecognized fault and goes on
RECURSIVE RunChain(_, _, _, _, _, _, _)
RunChain(r, sel, i, beh, su, w, isolate) ==
  LET L == ChainOf(r, sel) IN
  IF i > Len(L) THEN [r |-> r, out |-> "ok"]
  ELSE LET x == IF sel.kind = "create" THEN InvokeEntry(r, L[i], beh, su, w)
                ELSE Call(r, "call", L[i], beh[L[i]], su, w)
       IN IF x.out = "ok" \/ (isolate /\ x.out = "fault")
          THEN RunChain(x.r, sel, i + 1, beh, su, w, isolate)
          ELSE x

FuncsOf(L) == {L[i] : i \in 1..Len(L)}
CreateFuncs == {create_handlers[i].f : i \in 1..Len(create_handlers)}

(* ----------------------------- the cleaner ----------------------------- *)
\* if window in self.key_handlers: del self.key_handlers[window]
CleanKeyHandlers(kh, w) == IF Has(kh, w) THEN Del(kh, w) ELSE kh

\* if window in self.destroy_handlers: self.destroy_handlers[window]
\* (the entry is looked up and the value dropped: nothing is deleted)
CleanDestroyHandlers(dh, w) == IF Has(dh, w) THEN dh ELSE dh

\* try: self.focus_history.remove(window) except ValueError: pass
CleanFocusHistory(fh, w) == IF InList(fh, w) THEN ListRemove(fh, w) ELSE fh

\* the property loop of the cleaner dropping the whole dictionary of an atom that holds
\* the window
CleanPropertyHandlersDropAtom(ph, w) ==
  [a \in {x \in DOMAIN ph : ~Has(ph[x], w)} |-> ph[a]]

\* for atom, whandlers in self.property_handlers.items(): drop the window's list, and
\* the atom's dictionary once it is empty
CleanPropertyHandlers(ph, w) ==
  [a \in {x \in DOMAIN ph : (DOMAIN ph[x]) \ {w} # {}} |-> Del(ph[a], w)]

\* WM._clean_window_data(window)
CleanWindowData(r, w, su) ==
  Log([r EXCEPT !.key = CleanKeyHandlers(@, w),
                !.destroy = CleanDestroyHandlers(@, w),
                !.focus = CleanFocusHistory(@, w),
                !.prop = CleanPropertyHandlers(@, w)],
      Tr("clean", 0, NoEntry, w, su, "-", NoCap))

(* --------------------------- event handlers ---------------------------- *)
\* handle_keypress looking the binding up before the grab slot
KeypressResultBindingFirst(r, w, state, code, beh, su) ==
  IF Has(r.key, w) /\ Has(r.key[w], <<state, code>>)
  THEN Call(r, "call", r.key[w][<<state, code>>], beh[r.key[w][<<state, code>>]], su, w)
  ELSE IF grab_keyboard_handler # None
       THEN Call(r, "grab", grab_keyboard_handler, beh[grab_keyboard_handler], su, w)
       ELSE [r |-> r, out |-> "ok"]

\* WM.handle_keypress
KeypressResult(r, w, state, code, beh, su) ==
  IF grab_keyboard_handler # None
  THEN Call(r, "grab", grab_keyboard_handler, beh[grab_keyboard_handler], su, w)
  ELSE IF Has(r.key, w) /\ Has(r.key[w], <<state, code>>)
       THEN Call(r, "call", r.key[w][<<state, code>>], beh[r.key[w][<<state, code>>]], su, w)
       ELSE [r |-> r, out |-> "ok"]

\* WM.handle_keyrelease
KeyreleaseResult(r, w, state, code, beh, su) ==
  IF grab_keyboard_handler # None
  THEN Call(r, "grab", grab_keyboard_handler, beh[grab_keyboard_handler], su, w)
  ELSE [r |-> r, out |-> "ok"]

\* WM.process_create_window
ProcessCreateWindow(r, w, beh, su) == RunChain(r, Sel("create", 0, None, 0), 1, beh, su, w, FALSE)

\* handle_destroy with the cleaner after the loop instead of in finally:
DestroyResultNoFinally(r, w, beh, su) ==
  LET x == IF Has(r.destroy, w)
           THEN RunChain(r, Sel("destroy", 0, w, 0), 1, beh, su, w, FALSE)
           ELSE [r |-> r, out |-> "ok"]
  IN IF x.out = "ok" THEN [r |-> CleanWindowData(x.r, w, su), out |-> x.out] ELSE x

\* WM.handle_destroy: the listeners, then (finally:) the cleaner
DestroyResult(r, w, beh, su) ==
  LET x == IF Has(r.destroy, w)
           THEN RunChain(r, Sel("destroy", 0, w, 0), 1, beh, su, w, FALSE)
           ELSE [r |-> r, out |-> "ok"]
  IN [r |-> CleanWindowData(x.r, w, su), out |-> x.out]

\* handle_property without the test of event.state
PropertyResultAnyState(r, w, atom, state, beh, su) ==
  IF Has(r.prop, atom)
  THEN LET x == IF Has(r.prop[atom], w)
                THEN RunChain(r, Sel("prop", atom, w, 0), 1, beh, su, w, FALSE)
                ELSE [r |-> r, out |-> "ok"]
       IN IF x.out = "ok" /\ Has(x.r.prop[atom], None)
          THEN RunChain(x.r, Sel("prop", atom, None, 0), 1, beh, su, w, FALSE)
          ELSE x
  ELSE [r |-> r, out |-> "ok"]

\* WM.handle_property
PropertyResult(r, w, atom, state, beh, su) ==
  IF state = 0 /\ Has(r.prop, atom)
  THEN LET x == IF Has(r.prop[atom], w)
                THEN RunChain(r, Sel("prop", atom, w, 0), 1, beh, su, w, FALSE)
                ELSE [r |-> r, out |-> "ok"]
       IN IF x.out = "ok" /\ Has(x.r.prop[atom], None)
          THEN RunChain(x.r, Sel("prop", atom, None, 0), 1, beh, su, w, FALSE)
          ELSE x
  ELSE [r |-> r, out |-> "ok"]

\* handle_focusin appending without removing the earlier occurrence
FocusinResultAppendOnly(r, w) ==
  [r |-> [r EXCEPT !.focus = Append(@, w)], out |-> "ok"]

\* WM.handle_focusin
FocusinResult(r, w) ==
  [r |-> [r EXCEPT !.focus = Append(CleanFocusHistory(@, w), w)], out |-> "ok"]

(* ------------------------------ run loop ------------------------------- *)
\* run() without the bare except: an unrecognized fault ends the loop
DispatchedNoExcept(out) ==
  /\ pending' = pending - 1
  /\ xqueue' = Tail(xqueue)
  /\ took' = Head(xqueue)
  /\ ret' = out
  /\ pc' = IF out \in {"stop", "fault"} THEN "stopped"
           ELSE IF out = "restart" THEN "restart"
           ELSE IF pending > 1 THEN "drain"
           ELSE IF rfifoReady THEN "fifo" ELSE "select"
  /\ rfifoReady' = (rfifoReady /\ out \notin {"stop", "restart", "fault"})
  /\ UNCHANGED <<fifo, wblocked>>

\* run() with KeyboardInterrupt and SystemExit falling into the bare except
DispatchedSwallowsStop(out) ==
  /\ pending' = pending - 1
  /\ xqueue' = Tail(xqueue)
  /\ took' = Head(xqueue)
  /\ ret' = out
  /\ pc' = IF out = "restart" THEN "restart"
           ELSE IF pending > 1 THEN "drain"
           ELSE IF rfifoReady THEN "fifo" ELSE "select"
  /\ rfifoReady' = (rfifoReady /\ out # "restart")
  /\ UNCHANGED <<fifo, wblocked>>

\* run() going to the pipe as soon as it is readable, before the connection is drained
DispatchedPipeFirst(out) ==
  /\ pending' = pending - 1
  /\ xqueue' = Tail(xqueue)
  /\ took' = Head(xqueue)
  /\ ret' = out
  /\ pc' = IF out = "stop" THEN "stopped"
           ELSE IF out = "restart" THEN "restart"
           ELSE IF rfifoReady THEN "fifo"
           ELSE IF pending > 1 THEN "drain" ELSE "select"
  /\ rfifoReady' = (rfifoReady /\ out \notin {"stop", "restart"})
  /\ UNCHANGED <<fifo, wblocked>>

\* the try/except around h(event) in run(), then the next XPending()
Dispatched(out) ==
  /\ pending' = pending - 1
  /\ xqueue' = Tail(xqueue)
  /\ took' = Head(xqueue)
  /\ ret' = out
  /\ pc' = IF out = "stop" THEN "stopped"
           ELSE IF out = "restart" THEN "restart"
           ELSE IF pending > 1 THEN "drain"
           ELSE IF rfifoReady THEN "fifo" ELSE "select"
  /\ rfifoReady' = (rfifoReady /\ out \notin {"stop", "restart"})
  /\ UNCHANGED <<fifo, wblocked>>

Draining == pc = "drain" /\ pending > 0

KeyFuncs ==
  IF grab_keyboard_handler # None THEN {grab_keyboard_handler}
  ELSE UNION {{key_handlers[w][k] : k \in DOMAIN key_handlers[w]} : w \in DOMAIN key_handlers}

HandleKeypress(w, state, code) ==
  /\ Draining
  /\ \E beh \in Scripts(KeyFuncs) :
       LET x == KeypressResult(Regs, w, state, code, beh, startup) IN
         Commit(x.r) /\ Dispatched(x.out)
  /\ ev' = Ev("keypress", w, 0, state, code, 0)
  /\ UNCHANGED <<slots, startup, xgrabs, caps, nreg>>
  /\ UNCHANGED hooks

HandleKeyrelease(w, state, code) ==
  /\ Draining
  /\ \E beh \in Scripts(KeyFuncs) :
       LET x == KeyreleaseResult(Regs, w, state, code, beh, startup) IN
         Commit(x.r) /\ Dispatched(x.out)
  /\ ev' = Ev("keyrelease", w, 0, state, code, 0)
  /\ UNCHANGED <<slots, startup, xgrabs, caps, nreg>>
  /\ UNCHANGED hooks

\* WM.handle_create
HandleCreate(w) ==
  /\ Draining
  /\ startup' = "false"
  /\ \E beh \in Scripts(CreateFuncs) :
       LET x == ProcessCreateWindow(Regs, w, beh, "false") IN
         Commit(x.r) /\ Dispatched(x.out)
  /\ ev' = Ev("create", w, 0, 0, 0, 0)
  /\ UNCHANGED <<slots, xgrabs, caps, nreg>>
  /\ UNCHANGED hooks

HandleDestroy(w) ==
  /\ Draining
  /\ \E beh \in Scripts(FuncsOf(Get(destroy_handlers, w, << >>))) :
       LET x == DestroyResult(Regs, w, beh, startup) IN
         Commit(x.r) /\ Dispatched(x.out)
  /\ ev' = Ev("destroy", w, 0, 0, 0, 0)
  /\ UNCHANGED <<slots, startup, xgrabs, caps, nreg>>
  /\ UNCHANGED hooks

PropFuncs(w, atom) ==
  LET d == Get(property_handlers, atom, EmptyDict) IN
  FuncsOf(Get(d, w, << >>)) \cup FuncsOf(Get(d, None, << >>))

HandleProperty(w, atom, state) ==
  /\ Draining
  /\ \E beh \in Scripts(PropFuncs(w, atom)) :
       LET x == PropertyResult(Regs, w, atom, state, beh, startup) IN
         Commit(x.r) /\ Dispatched(x.out)
  /\ ev' = Ev("property", w, atom, state, 0, 0)
  /\ UNCHANGED <<slots, startup, xgrabs, caps, nreg>>
  /\ UNCHANGED hooks

HandleFocusin(w) ==
  /\ Draining
  /\ LET x == FocusinResult(Regs, w) IN Commit(x.r) /\ Dispatched(x.out)
  /\ ev' = Ev("focusin", w, 0, 0, 0, 0)
  /\ UNCHANGED <<slots, startup, xgrabs, caps, nreg>>
  /\ UNCHANGED hooks

\* an event type run() has no handler for: continue
HandleOther ==
  /\ Draining
  /\ Commit(Regs) /\ Dispatched("ok")
  /\ ev' = Ev("other", None, 0, 0, 0, 0)
  /\ UNCHANGED <<slots, startup, xgrabs, caps, nreg>>
  /\ UNCHANGED hooks

\* WM.init: the startup replay over the client list
RECURSIVE Replay(_, _, _, _)
Replay(r, clients, j, beh) ==
  IF j > Len(clients) THEN [r |-> r, out |-> "ok"]
  ELSE LET x == ProcessCreateWindow(r, clients[j], beh, "true") IN
       IF x.out = "ok" THEN Replay(x.r, clients, j + 1, beh) ELSE x

\* _NET_CLIENT_LIST: the windows of the session, each once
ClientLists ==
  {c \in UNION {[1..n -> Windows] : n \in 0..MaxWindow} :
     \A i, j \in 1..Len(c) : i # j => c[i] # c[j]}

\* for h in self.init_handlers: h() (catchAll = FALSE), and the deinit handlers of
\* stop(), each in try / bare except (catchAll = TRUE)
RECURSIVE RunHooks(_, _, _, _, _, _, _)
RunHooks(r, L, i, op, beh, su, catchAll) ==
  IF i > Len(L) THEN [r |-> r, out |-> "ok"]
  ELSE LET x == Call(r, op, L[i], beh[L[i]], su, None) IN
       IF x.out = "ok" \/ catchAll THEN RunHooks(x.r, L, i + 1, op, beh, su, catchAll) ELSE x

WMInit(clients) ==
  /\ pc = "new"
  /\ \E beh \in Scripts(CreateFuncs \cup FuncsOf(init_handlers)) :
       LET h == RunHooks(Regs, init_handlers, 1, "init", beh, startup, FALSE)
           x == IF h.out = "ok" THEN Replay(h.r, clients, 1, beh) ELSE h
       IN /\ Commit(x.r)
          /\ startup' = IF h.out = "ok" THEN "true" ELSE startup
          /\ ret' = x.out
          /\ pc' = IF x.out = "ok" THEN "select" ELSE "aborted"
  /\ ev' = [Ev("init", None, 0, 0, 0, 0) EXCEPT !.clients = clients]
  /\ UNCHANGED <<slots, xgrabs, caps, nreg, pending, fifo, wblocked, rfifoReady>>
  /\ UNCHANGED hooks
  /\ took' = 0 /\ UNCHANGED xqueue

\* select([self.fd, self.rfifo]) returns, then XPending()
Select ==
  /\ pc = "select"
  /\ pending > 0 \/ fifo # << >>
  /\ rfifoReady' = (fifo # << >>)
  /\ pc' = IF pending > 0 THEN "drain" ELSE "fifo"
  /\ ev' = Ev("select", None, 0, 0, 0, 0)
  /\ trace' = << >>
  /\ ret' = "ok"
  /\ UNCHANGED <<regs, slots, focus_history, startup, xgrabs, caps, nreg, pending, fifo,
                 wblocked>>
  /\ UNCHANGED hooks
  /\ took' = 0 /\ UNCHANGED xqueue

\* KeyboardInterrupt in select() or XPending(): return True
Interrupt ==
  /\ pc \in {"select", "drain"}
  /\ pc' = "stopped"
  /\ rfifoReady' = FALSE
  /\ ev' = Ev("interrupt", None, 0, 0, 0, 0)
  /\ trace' = << >>
  /\ ret' = "stop"
  /\ UNCHANGED <<regs, slots, focus_history, startup, xgrabs, caps, nreg, pending, fifo,
                 wblocked>>
  /\ UNCHANGED hooks
  /\ took' = 0 /\ UNCHANGED xqueue

\* for s in os.read(self.rfifo, 8192).splitlines(): the listeners of s, each in try/except
RECURSIVE RunSignals(_, _, _, _, _)
RunSignals(r, names, j, beh, su) ==
  IF j > Len(names) THEN [r |-> r, out |-> "ok"]
  ELSE IF ~Has(r.sig, names[j]) THEN RunSignals(r, names, j + 1, beh, su)
  ELSE LET x == RunChain(r, Sel("sig", 0, None, names[j]), 1, beh, su, None, TRUE) IN
       IF x.out = "ok" THEN RunSignals(x.r, names, j + 1, beh, su) ELSE x

SignalFuncs == UNION {FuncsOf(signal_handlers[s]) : s \in DOMAIN signal_handlers}

ReadFifo ==
  /\ pc = "fifo"
  /\ \E beh \in Scripts(SignalFuncs) :
       LET x == RunSignals(Regs, fifo, 1, beh, startup) IN
         /\ Commit(x.r)
         /\ ret' = x.out
         /\ pc' = IF x.out = "stop" THEN "stopped"
                  ELSE IF x.out = "restart" THEN "restart" ELSE "select"
  /\ fifo' = << >>
  /\ rfifoReady' = FALSE
  /\ ev' = Ev("signals", None, 0, Len(fifo), 0, 0)
  /\ UNCHANGED <<slots, startup, xgrabs, caps, nreg, pending, wblocked>>
  /\ UNCHANGED hooks
  /\ took' = 0 /\ UNCHANGED xqueue

(* ------------------------------ shutdown ------------------------------- *)
\* core.py's clear_handlers: the registries it knows
ClearHandlers(r) ==
  [r EXCEPT !.key = EmptyDict, !.prop = EmptyDict, !.create = << >>,
            !.destroy = EmptyDict, !.focus = << >>]



\* the registries as stop() leaves them before the deinit handlers run
Cleared(r) ==
  [r EXCEPT !.key = EmptyDict, !.prop = EmptyDict, !.create = << >>,
            !.destroy = EmptyDict, !.focus = << >>, !.sig = EmptyDict]

\* WM.stop(is_exit); clients is what get_clients() answers
Stop(is_exit) ==
  /\ pc # "closed"
  /\ \E clients \in SUBSET Windows, beh \in Scripts(FuncsOf(deinit_handlers)) :
       LET x == RunHooks(Cleared(Regs), deinit_handlers, 1, "deinit", beh, startup, TRUE) IN
         /\ Commit(x.r)
         /\ xgrabs' = IF is_exit THEN xgrabs
                      ELSE {g \in xgrabs : g[1] # Root /\ g[1] \notin clients}
  /\ init_handlers' = << >>
  /\ deinit_handlers' = << >>
  /\ pc' = "closed"
  /\ ret' = "ok"
  /\ ev' = Ev("stop", None, 0, IF is_exit THEN 1 ELSE 0, 0, 0)
  /\ UNCHANGED <<slots, startup, caps, nreg, pending, fifo, wblocked, rfifoReady>>
  /\ took' = 0 /\ UNCHANGED xqueue

(* ----------------------------- environment ----------------------------- *)
\* the display queues one more event, carrying mark, on the connection
XArriveMarked(mark) ==
  /\ pc \in {"select", "drain", "fifo"}
  /\ pending < MaxPending
  /\ pending' = pending + 1
  /\ xqueue' = Append(xqueue, mark)
  /\ took' = 0
  /\ ev' = Ev("arrive", None, 0, 0, 0, 0)
  /\ trace' = << >>
  /\ ret' = "ok"
  /\ UNCHANGED <<regs, slots, focus_history, startup, xgrabs, caps, nreg, fifo, wblocked,
                 rfifoReady, pc>>
  /\ UNCHANGED hooks

\* the same where the events need not be told apart
XArrive == XArriveMarked(1)

\* the marks that tell queued events apart
Marks == {1, 2}

\* WM.emit(signal), called from another thread: os.write on the write end of the pipe,
\* which is left in blocking mode (only rfifo is made O_NONBLOCK); MaxFifo names fill
\* the pipe's buffer, and a write to a full pipe waits for the reader
Emit(s) ==
  /\ Alive
  /\ IF Len(fifo) < MaxFifo
     THEN fifo' = Append(fifo, s) /\ ret' = "ok" /\ UNCHANGED wblocked
     ELSE /\ Len(wblocked) < MaxBlocked
          /\ wblocked' = Append(wblocked, s) /\ ret' = "blocked" /\ UNCHANGED fifo
  /\ ev' = Ev("emit", None, 0, s, 0, 0)
  /\ trace' = << >>
  /\ UNCHANGED <<regs, slots, focus_history, startup, xgrabs, caps, nreg, pending, rfifoReady, pc>>
  /\ UNCHANGED hooks
  /\ took' = 0 /\ UNCHANGED xqueue

\* a waiting os.write completes once the dispatcher has read the pipe; emit returns
EmitReturns ==
  /\ wblocked # << >>
  /\ Len(fifo) < MaxFifo
  /\ fifo' = Append(fifo, Head(wblocked))
  /\ wblocked' = Tail(wblocked)
  /\ ev' = Ev("emit_returns", None, 0, Head(wblocked), 0, 0)
  /\ trace' = << >>
  /\ ret' = "ok"
  /\ UNCHANGED <<regs, slots, focus_history, startup, xgrabs, caps, nreg, pending, rfifoReady, pc>>
  /\ UNCHANGED hooks
  /\ took' = 0 /\ UNCHANGED xqueue

(* --------------------------- specifications ---------------------------- *)
KeyWindows == {Root} \cup Windows
\* the modifier states and key codes of the key events the display sends
EvStates ==
  {BitOr(m, i) : m \in {0, ControlMask},
                i \in {0, LockMask, Mod2Mask, BitOr(LockMask, Mod2Mask), ShiftMask}}
EvCodes == {XKeysymToKeycode(XStringToKeysym("a")), XKeysymToKeycode(XStringToKeysym("t"))}
GrabResults == {GrabSuccess, AlreadyGrabbed}
PropStates == {PropertyNewValue, PropertyDelete}
\* function identifiers are interchangeable: the k-th registration names one of the
\* first k of them
NewHandlers == {f \in Handlers : f <= nreg + 1}

\* the grab slots against key events
NextGrab ==
  \/ \E w \in KeyWindows, kd \in KeyDefs, f \in Handlers : nreg = 0 /\ BindKey(w, kd, f)
  \/ \E f \in Handlers, result \in GrabResults : GrabKeyboard(f, result)
  \/ UngrabKeyboard
  \/ \E f \in Handlers, result \in GrabResults : GrabPointer(f, result)
  \/ UngrabPointer
  \/ WMInit(<< >>)
  \/ Select
  \/ XArrive
  \/ \E w \in KeyWindows, state \in {0, ControlMask}, code \in EvCodes :
       HandleKeypress(w, state, code)
  \/ \E w \in KeyWindows, state \in {0, ControlMask}, code \in EvCodes :
       HandleKeyrelease(w, state, code)

SpecGrab == Init /\ [][NextGrab]_vars

\* the four registries that hand out a removal capability
NextRegistry ==
  \/ \E w \in KeyWindows, kd \in KeyDefs, f \in NewHandlers : BindKey(w, kd, f)
  \/ \E skip \in BOOLEAN, m \in Matchers, f \in NewHandlers : OnCreate(skip, m, f)
  \/ \E w \in Windows \cup {None}, props \in PropLists, f \in NewHandlers :
       OnPropertyChange(w, props, f)
  \/ \E s \in Signals, f \in NewHandlers : OnSignal(s, f)
  \/ \E c \in caps : Remove(c)

SpecRegistry == Init /\ [][NextRegistry]_vars

\* creation listeners: the startup replay and live window-create events
NextCreate ==
  \/ \E skip \in BOOLEAN, m \in Matchers, f \in NewHandlers : OnCreate(skip, m, f)
  \/ \E c \in caps : Remove(c)
  \/ \E clients \in ClientLists : WMInit(clients)
  \/ Select
  \/ XArrive
  \/ Interrupt
  \/ \E w \in Windows : HandleCreate(w)
  \/ \E w \in Windows : HandleFocusin(w)
  \/ HandleOther

SpecCreate == Init /\ [][NextCreate]_vars

\* property subscriptions and destruction listeners in the drain loop
NextProperty ==
  \/ \E w \in Windows \cup {None}, props \in PropLists, f \in NewHandlers :
       OnPropertyChange(w, props, f)
  \/ \E w \in Windows, f \in NewHandlers : OnDestroy(w, f)
  \/ \E c \in caps : Remove(c)
  \/ WMInit(<< >>)
  \/ Select
  \/ XArrive
  \/ \E w \in Windows, atom \in Atoms, state \in PropStates : HandleProperty(w, atom, state)
  \/ \E w \in Windows : HandleDestroy(w)

SpecProperty == Init /\ [][NextProperty]_vars

\* the cleaner against every registry keyed by a window
NextClean ==
  \/ \E w \in KeyWindows, f \in NewHandlers : BindKey(w, <<"a">>, f)
  \/ \E w \in Windows, f \in NewHandlers : OnDestroy(w, f)
  \/ \E w \in Windows \cup {None}, props \in PropLists, f \in NewHandlers :
       OnPropertyChange(w, props, f)
  \/ WMInit(<< >>)
  \/ Select
  \/ XArrive
  \/ \E w \in Windows : HandleDestroy(w)
  \/ \E w \in Windows : HandleFocusin(w)

SpecClean == Init /\ [][NextClean]_vars

\* the signal channel
NextSignals ==
  \/ \E s \in Signals, f \in NewHandlers : OnSignal(s, f)
  \/ \E c \in caps : Remove(c)
  \/ \E s \in Signals : Emit(s)
  \/ EmitReturns
  \/ WMInit(<< >>)
  \/ Select
  \/ XArrive
  \/ Interrupt
  \/ HandleOther
  \/ ReadFifo

SpecSignals == Init /\ [][NextSignals]_vars

\* the signal channel with the dispatcher's own steps scheduled fairly: init() returns,
\* select() returns when a descriptor is ready, a queued event is dispatched, a readable
\* pipe is read; the display and the emitting threads are free
SpecSignalsFair ==
  /\ Init /\ [][NextSignals]_vars
  /\ WF_vars(WMInit(<< >>)) /\ WF_vars(Select) /\ WF_vars(HandleOther) /\ WF_vars(ReadFifo)

\* key bindings against key-press events of every modifier state
NextKeys ==
  \/ \E w \in {Root, 1}, kd \in KeyDefs, f \in NewHandlers : BindKey(w, kd, f)
  \/ \E c \in caps : Remove(c)
  \/ WMInit(<< >>)
  \/ Select
  \/ XArrive
  \/ \E w \in {Root, 1}, state \in EvStates, code \in EvCodes : HandleKeypress(w, state, code)

SpecKeys == Init /\ [][NextKeys]_vars

\* every kind of handler, registered before init(), against the ways out of run()
NextRun ==
  \/ \E f \in NewHandlers : pc = "new" /\ BindKey(Root, <<"a">>, f)
  \/ \E f \in NewHandlers : pc = "new" /\ OnCreate(FALSE, 0, f)
  \/ \E f \in NewHandlers : pc = "new" /\ OnDestroy(1, f)
  \/ \E f \in NewHandlers : pc = "new" /\ OnPropertyChange(None, <<1>>, f)
  \/ \E f \in NewHandlers : pc = "new" /\ OnSignal(1, f)
  \/ pc = "new" /\ GrabKeyboard(1, GrabSuccess)
  \/ WMInit(<< >>)
  \/ Select
  \/ XArrive
  \/ Interrupt
  \/ Emit(1)
  \/ EmitReturns
  \/ ReadFifo
  \/ HandleKeypress(Root, 0, XKeysymToKeycode(XStringToKeysym("a")))
  \/ HandleKeyrelease(Root, 0, XKeysymToKeycode(XStringToKeysym("a")))
  \/ HandleCreate(1)
  \/ HandleDestroy(1)
  \/ HandleProperty(1, 1, PropertyNewValue)
  \/ HandleOther

SpecRun == Init /\ [][NextRun]_vars

\* every registry and both hook lists against stop()
NextStop ==
  \/ \E f \in NewHandlers : BindKey(Root, <<"a">>, f)
  \/ \E f \in NewHandlers : OnCreate(FALSE, 0, f)
  \/ \E f \in NewHandlers : OnDestroy(1, f)
  \/ \E f \in NewHandlers : OnPropertyChange(None, <<1>>, f)
  \/ \E f \in NewHandlers : OnSignal(1, f)
  \/ \E f \in NewHandlers : OnInit(f)
  \/ \E f \in NewHandlers : OnDeinit(f)
  \/ WMInit(<< >>)
  \/ Select
  \/ XArrive
  \/ Interrupt
  \/ \E w \in Windows : HandleFocusin(w)
  \/ \E is_exit \in BOOLEAN : Stop(is_exit)

SpecStop == Init /\ [][NextStop]_vars

\* the order of dispatch: marked events and the signal pipe
NextOrder ==
  \/ \E f \in NewHandlers : OnSignal(1, f)
  \/ \E f \in NewHandlers : OnPropertyChange(None, <<1>>, f)
  \/ Emit(1)
  \/ WMInit(<< >>)
  \/ Select
  \/ \E mark \in Marks : XArriveMarked(mark)
  \/ HandleProperty(1, 1, PropertyNewValue)
  \/ HandleOther
  \/ ReadFifo

SpecOrder == Init /\ [][NextOrder]_vars

(* ------------------------------- claims -------------------------------- *)
\* every registry entry keyed by window w
KeyedBy(w) ==
  [key |-> Has(key_handlers, w),
   destroy |-> Has(destroy_handlers, w),
   focus |-> InList(focus_history, w),
   prop |-> \E a \in DOMAIN property_handlers : Has(property_handlers[a], w)]

\* C1: after a destroy event for window W has been processed (the destruction listeners,
\* then the cleaner), none of the key-binding map, the property-subscription maps, the
\* destruction-listener map and the focus history holds an entry keyed by W.
C1_DestroyPurgesWindow ==
  ev.kind = "destroy" =>
    KeyedBy(ev.w) = [key |-> FALSE, destroy |-> FALSE, focus |-> FALSE, prop |-> FALSE]

\* C2: after a registration and one invocation of its remove(), a second invocation of
\* the same remove() raises no fault and leaves every registry unchanged (key bindings,
\* creation listeners, property subscriptions, signal listeners).
C2_SecondRemoveIsNoop ==
  [][(ev.kind = "remove" /\ ret = "ok" /\ ev'.kind = "remove" /\ ev'.cap = ev.cap)
       => (ret' = "ok" /\ regs' = regs)]_vars

IsEntry(t) == t.op = "entry"
IsCall(t) == t.op = "call"
IsRemoval(t) == t.op = "call" /\ t.b = "remove"
Occurrences(L, P(_)) == Cardinality({i \in 1..Len(L) : P(L[i])})
\* the handlers of property atom on window w and the global ones, as handle_property
\* finds them
PropertyChain(w, atom) ==
  LET d == Get(property_handlers, atom, EmptyDict) IN Get(d, w, << >>) \o Get(d, None, << >>)
\* the step invoked only callbacks that returned, some after removing themselves from
\* the chain being run
SelfRemovalOnly(t, own(_, _)) ==
  /\ \A i \in 1..Len(t) : t[i].op = "call" => t[i].b \in {"ok", "remove"}
  /\ \E i \in 1..Len(t) : IsRemoval(t[i])
  /\ \A i \in 1..Len(t) : IsRemoval(t[i]) => own(t, i)
OwnCreate(t, i) == i > 1 /\ t[i - 1].op = "entry" /\ t[i].c.kind = "create" /\ t[i].c.e = t[i - 1].e
OwnProperty(t, i) ==
  /\ t[i].c.kind = "prop" /\ t[i].c.f = t[i].f
  /\ t[i].c.w \in {ev'.w, None} /\ InList(t[i].c.props, ev'.atom)
OwnSignal(t, i) == t[i].c.kind = "signal" /\ t[i].c.f = t[i].f /\ t[i].c.s = fifo[1]

\* C3: when a handler of a property-change, creation or signal chain calls its own
\* remove() while it runs, every other handler that was in the chain when the dispatch
\* began is still invoked exactly once for the event.
C3_SelfRemovalKeepsChain ==
  [][/\ (ev'.kind = "create" /\ pc = "drain" /\ ret' = "ok"
           /\ SelfRemovalOnly(trace', OwnCreate))
        => \A e \in FuncsOf(create_handlers) :
             (\A i \in 1..Len(trace') : IsRemoval(trace'[i]) => trace'[i].c.e # e)
               => Occurrences(trace', LAMBDA t : t.op = "entry" /\ t.e = e)
                    = Count(create_handlers, e)
     /\ (ev'.kind = "property" /\ pc = "drain" /\ ev'.state = PropertyNewValue /\ ret' = "ok"
           /\ SelfRemovalOnly(trace', OwnProperty))
        => \A g \in FuncsOf(PropertyChain(ev'.w, ev'.atom)) :
             (\A i \in 1..Len(trace') : IsRemoval(trace'[i]) => trace'[i].f # g)
               => Occurrences(trace', LAMBDA t : t.op = "call" /\ t.f = g)
                    = Count(PropertyChain(ev'.w, ev'.atom), g)
     /\ (ev'.kind = "signals" /\ pc = "fifo" /\ Len(fifo) = 1 /\ ret' = "ok"
           /\ SelfRemovalOnly(trace', OwnSignal))
        => \A g \in FuncsOf(Get(signal_handlers, fifo[1], << >>)) :
             (\A i \in 1..Len(trace') : IsRemoval(trace'[i]) => trace'[i].f # g)
               => Occurrences(trace', LAMBDA t : t.op = "call" /\ t.f = g)
                    = Count(signal_handlers[fifo[1]], g)]_vars

\* C4: a handler that raises an unrecognized fault while a property-change event is
\* dispatched does not end the run loop, and an event already queued behind it is the
\* next thing the loop takes, in the same drain (before select() or the signal pipe).
C4_FaultKeepsDraining ==
  [][(pc = "drain" /\ ev'.kind = "property" /\ ret' = "fault")
       => /\ pc' \in {"drain", "fifo", "select"}
          /\ pending > 1 => (pc' = "drain" /\ pending' = pending - 1)]_vars

\* a property handler raised, the loop is still draining and an event is queued
C4_Witness ==
  /\ ev.kind = "property" /\ ret = "fault"
  /\ \E i \in 1..Len(trace) : trace[i].op = "call" /\ trace[i].b = "fault"
  /\ pc = "drain" /\ pending > 0
  /\ \A w \in Windows : ENABLED HandleDestroy(w)

IsClean(t) == t.op = "clean"

\* C5: for every destroy event processed the cleaner runs exactly once, for that window,
\* after every destruction-listener invocation of the event, whether the window had no
\* listeners, they returned, or one raised (an unrecognized fault, stop or restart).
C5_CleanerOnceAfterListeners ==
  ev.kind = "destroy" =>
    /\ Occurrences(trace, IsClean) = 1
    /\ trace[Len(trace)].op = "clean"
    /\ trace[Len(trace)].w = ev.w
    /\ \A i \in 1..(Len(trace) - 1) : trace[i].op = "call"

\* a destruction listener raised and the cleaner still ran after it
C5_Witness ==
  /\ ev.kind = "destroy" /\ ret \in {"fault", "stop", "restart"}
  /\ Len(trace) = 2 /\ trace[1].op = "call" /\ trace[1].b = ret /\ trace[2].op = "clean"

\* C6: during init(), for every window of the client list the creation chain is run
\* exactly once (each registered chain entry is invoked once per window), and the startup
\* flag is true during every one of those invocations.
C6_ReplayRunsChainPerClient ==
  [][(pc = "new" /\ ev'.kind = "init")
       => /\ \A j \in 1..Len(ev'.clients) : \A e \in FuncsOf(create_handlers) :
               Occurrences(trace', LAMBDA t : t.op = "entry" /\ t.e = e /\ t.w = ev'.clients[j])
                 = Count(create_handlers, e)
          /\ \A i \in 1..Len(trace') : trace'[i].su = "true"]_vars

\* the user callback behind the creation listener invoked at trace[i] was called
CallbackRan(t, i) == i < Len(t) /\ t[i + 1].op = "call" /\ t[i + 1].f = t[i].f

C8_StartupFalseAfterReplay ==
  pc \in {"select", "drain", "fifo", "stopped", "restart"} => startup = "false"

\* C9: when the display server grants the grab request, grab_keyboard returns true
\* exactly when the keyboard slot is empty and then stores its handler; while the slot is
\* held it returns false, leaves the holder and everything else unchanged and sends no
\* request to the server; ungrab_keyboard always leaves the slot empty without fault,
\* held or not; likewise grab_pointer and ungrab_pointer for the pointer slot.
C9_GrabSlotExclusive ==
  [][/\ (ev'.kind = "grab_keyboard" /\ ev'.state = GrabSuccess)
          => IF grab_keyboard_handler = None
             THEN /\ ret' = "True" /\ grab_keyboard_handler' = ev'.f
                  /\ Len(trace') = 1 /\ trace'[1].op = "XGrabKeyboard"
             ELSE /\ ret' = "False" /\ trace' = << >>
                  /\ UNCHANGED <<grab_keyboard_handler, grab_pointer_handler, regs>>
     /\ (ev'.kind = "grab_pointer" /\ ev'.state = GrabSuccess)
          => IF grab_pointer_handler = None
             THEN /\ ret' = "True" /\ grab_pointer_handler' = ev'.f
                  /\ Len(trace') = 1 /\ trace'[1].op = "XGrabPointer"
             ELSE /\ ret' = "False" /\ trace' = << >>
                  /\ UNCHANGED <<grab_keyboard_handler, grab_pointer_handler, regs>>
     /\ ev'.kind = "ungrab_keyboard"
          => (grab_keyboard_handler' = None /\ ret' = "ok" /\ UNCHANGED grab_pointer_handler)
     /\ ev'.kind = "ungrab_pointer"
          => (grab_pointer_handler' = None /\ ret' = "ok" /\ UNCHANGED grab_keyboard_handler)
    ]_vars

\* a grab_keyboard call for another handler was refused while the slot was held
C9_Witness ==
  /\ ev.kind = "grab_keyboard" /\ ev.state = GrabSuccess /\ ret = "False"
  /\ grab_keyboard_handler # None /\ grab_keyboard_handler # ev.f
  /\ trace = << >>

\* C10: while the keyboard grab slot is held, a key-press event is delivered to the grab
\* handler and to no key-binding handler, even if a binding for its (window, mask, code)
\* exists; a key-release event is delivered to the grab handler when the slot is held,
\* and otherwise invokes no handler and changes no registry, slot or flag.
C10_GrabBypassesBindings ==
  [][/\ (pc = "drain" /\ ev'.kind \in {"keypress", "keyrelease"}
           /\ grab_keyboard_handler # None)
          => /\ Occurrences(trace', IsCall) = 0 /\ Len(trace') = 1
             /\ trace'[1].op = "grab" /\ trace'[1].f = grab_keyboard_handler
             /\ trace'[1].w = ev'.w
     /\ (pc = "drain" /\ ev'.kind = "keyrelease" /\ grab_keyboard_handler = None)
          => /\ trace' = << >> /\ ret' = "ok"
             /\ UNCHANGED <<regs, slots, focus_history, startup, xgrabs>>
    ]_vars

\* a key press with a binding for its (window, mask, code) went to the grab handler
C10_Witness ==
  /\ ev.kind = "keypress" /\ Len(trace) = 1 /\ trace[1].op = "grab"
  /\ Has(key_handlers, ev.w) /\ Has(key_handlers[ev.w], <<ev.state, ev.code>>)

\* the states under which a binding for key-spec mask m is to fire
LockVariants(m) == {BitOr(m, i) : i \in {0, LockMask, Mod2Mask, BitOr(LockMask, Mod2Mask)}}
\* the last step invoked exactly the key handler f for window w, once
OneKeyCall(t, f, w) == Len(t) = 1 /\ t[1].op = "call" /\ t[1].f = f /\ t[1].w = w

\* C11: with no keyboard grab held, binding a handler to key-spec mask M and code K on
\* window W registers it for exactly the states M | i, i in {0, Lock, Mod2, Lock|Mod2};
\* a key-press invokes exactly once the handler registered for its (window, state, code)
\* and no handler when there is none; so while one binding is in place, a key-press on W
\* with code K invokes its handler exactly once for each of the four states and a
\* key-press with any other state invokes no handler.
C11_BindingFiresForLockVariants ==
  [][/\ (ev'.kind = "bind_key" /\ ret' = "ok")
          => /\ Has(key_handlers', ev'.w)
             /\ \A s \in LockVariants(ev'.state) :
                  /\ Has(key_handlers'[ev'.w], <<s, ev'.code>>)
                  /\ key_handlers'[ev'.w][<<s, ev'.code>>] = ev'.f
             /\ \A w \in DOMAIN key_handlers' : \A k \in DOMAIN key_handlers'[w] :
                  (w = ev'.w /\ k[2] = ev'.code /\ k[1] \in LockVariants(ev'.state))
                    \/ (Has(key_handlers, w) /\ Has(key_handlers[w], k)
                          /\ key_handlers'[w][k] = key_handlers[w][k])
     /\ (pc = "drain" /\ ev'.kind = "keypress" /\ grab_keyboard_handler = None)
          => /\ IF Has(key_handlers, ev'.w) /\ Has(key_handlers[ev'.w], <<ev'.state, ev'.code>>)
                THEN OneKeyCall(trace', key_handlers[ev'.w][<<ev'.state, ev'.code>>], ev'.w)
                ELSE trace' = << >>
             /\ \A c \in caps :
                  (caps = {c} /\ c.kind = "key" /\ key_handlers # EmptyDict
                     /\ Has(key_handlers, c.w) /\ key_handlers[c.w] # EmptyDict)
                    => IF /\ ev'.w = c.w /\ ev'.code = c.keys[1][2]
                          /\ ev'.state \in LockVariants(c.keys[1][1])
                       THEN OneKeyCall(trace', c.f, c.w)
                       ELSE trace' = << >>
    ]_vars

\* a key press with Control and both locks on invoked the handler bound to Ctrl+a
C11_Witness ==
  /\ ev.kind = "keypress" /\ ev.state = BitOr(ControlMask, BitOr(LockMask, Mod2Mask))
  /\ grab_keyboard_handler = None
  /\ Len(trace) = 1 /\ trace[1].op = "call" /\ trace[1].w = ev.w

\* C12: one invocation of the removal capability of a key binding reverts its four
\* expanded (mask, code) registrations together: afterwards none of the four pairs is in
\* the key-binding map of that window (so no key-press with any of them invokes the
\* handler) and the four key grabs requested from the display are released.
C12_UnbindRevertsAllFour ==
  [][(ev'.kind = "remove" /\ ev'.cap.kind = "key" /\ ret' = "ok")
       => \A i \in 1..Len(ev'.cap.keys) :
            /\ ~(Has(key_handlers', ev'.cap.w) /\ Has(key_handlers'[ev'.cap.w], ev'.cap.keys[i]))
            /\ <<ev'.cap.w, ev'.cap.keys[i][1], ev'.cap.keys[i][2]>> \notin xgrabs']_vars

\* the modifier tokens of MODIFICATORS and the key names the display resolves
KnownModifiers == {"Alt", "Control", "Ctrl", "Shift", "Win", "Mod"}
KnownKeyNames == {"a", "t"}
\* the key-spec has an unknown modifier token or a key name that resolves to no symbol
BadKeyDef(kd) ==
  \/ \E i \in 1..(Len(kd) - 1) : kd[i] \notin KnownModifiers
  \/ kd[Len(kd)] \notin KnownKeyNames

\* C13: for a key-spec with an unknown modifier token or a key name that resolves to no
\* symbol, bind_key sends no grab request, leaves the key-binding map (and every other
\* registry) unchanged, and the decorator it returns is applied to the handler without
\* fault and without registering anything or handing out a removal capability.
C13_InvalidKeySpecRegistersNothing ==
  [][(ev'.kind = "bind_key" /\ BadKeyDef(ev'.keydef))
       => /\ xgrabs' = xgrabs /\ key_handlers' = key_handlers /\ regs' = regs
          /\ caps' = caps /\ nreg' = nreg
          /\ ret' # "fault" /\ trace' = << >>]_vars

\* a key-spec with an unknown modifier was passed while a binding was in place
C13_Witness ==
  /\ ev.kind = "bind_key" /\ ev.keydef = <<"Bogus", "a">> /\ ret = "invalid"
  /\ key_handlers # EmptyDict

\* the subscribers registered for property atom, for window w or globally (None)
Subscribers(atom, w) == FuncsOf(Get(Get(property_handlers, atom, EmptyDict), w, << >>))
\* the user callbacks the step invoked
Invoked(t) == {t[i].f : i \in {j \in 1..Len(t) : t[j].op = "call"}}

\* C14: for a non-echo change of property P on window V (no stop or restart requested
\* during it), every subscriber registered globally for P is invoked, a subscriber
\* registered for (W, P) is invoked if and only if V = W, and no subscriber registered
\* only for a different property is invoked.
C14_PropertyRouting ==
  [][(pc = "drain" /\ ev'.kind = "property" /\ ev'.state = PropertyNewValue
        /\ ret' \notin {"stop", "restart"})
       => Invoked(trace') = Subscribers(ev'.atom, None) \cup Subscribers(ev'.atom, ev'.w)]_vars

\* C15: a property-change event whose state is not the non-echo value (PropertyNewValue)
\* invokes no property subscriber, window-specific or global, and leaves all registries
\* unchanged.
C15_EchoInvokesNothing ==
  [][(pc = "drain" /\ ev'.kind = "property" /\ ev'.state # PropertyNewValue)
       => /\ trace' = << >> /\ ret' = "ok"
          /\ UNCHANGED <<regs, slots, focus_history, xgrabs, caps>>]_vars

\* an echo event for a property of a window with a window-specific and a global
\* subscriber was dispatched
C15_Witness ==
  /\ ev.kind = "property" /\ ev.state = PropertyDelete /\ trace = << >>
  /\ Subscribers(ev.atom, None) # {} /\ Subscribers(ev.atom, ev.w) # {}

NoDuplicates(L) == \A i, j \in 1..Len(L) : i # j => L[i] # L[j]
Without(L, w) == SelectSeq(L, LAMBDA x : x # w)

\* C16: the focus history never contains a window twice and is ordered by each window's
\* most recent focus-in, the most recent last: a focus-in event for W puts W at the tail
\* and keeps the other windows in their order, and every other step keeps the order of
\* the windows it leaves in the history.
C16_FocusHistoryOrdered ==
  [][/\ NoDuplicates(focus_history) /\ NoDuplicates(focus_history')
     /\ (pc = "drain" /\ ev'.kind = "focusin")
          => /\ focus_history' # << >>
             /\ focus_history'[Len(focus_history')] = ev'.w
             /\ Without(focus_history', ev'.w) = Without(focus_history, ev'.w)
     /\ ev'.kind # "focusin"
          => \/ focus_history' = focus_history
             \/ \E w \in Windows : focus_history' = Without(focus_history, w)]_vars

\* window 1 was focused again after window 2
C16_Witness ==
  ev.kind = "focusin" /\ ev.w = 1 /\ focus_history = <<2, 1>>

\* the step invoked a handler that raised k
Raised(t, k) == \E i \in 1..Len(t) : t[i].op \in {"call", "grab"} /\ t[i].b = k

\* C17: run() returns only because of a stop or a restart request: a stop request raised
\* while waiting or inside a handler makes it return True (pc "stopped"), a restart fault
\* raised inside a handler makes it return False (pc "restart"), nothing else ends the
\* loop, and after either is raised no further handler is invoked and no further queued
\* event is dispatched by that run() call.
C17_OnlyStopOrRestartLeaveRun ==
  [][/\ pc \in {"stopped", "restart"}
          => (trace' = << >> /\ UNCHANGED <<pc, pending, regs, slots, focus_history>>)
     /\ pc \in {"select", "drain", "fifo"}
          => /\ pc' = "stopped" <=> (ev'.kind = "interrupt" \/ Raised(trace', "stop"))
             /\ pc' = "restart" <=> Raised(trace', "restart")
             /\ pc' \in {"select", "drain", "fifo", "stopped", "restart"}
             /\ pc' = "stopped" => ret' = "stop"
             /\ pc' = "restart" => ret' = "restart"
             /\ \A i \in 1..Len(trace') :
                  (trace'[i].op \in {"call", "grab"} /\ trace'[i].b \in {"stop", "restart"})
                    => \A j \in (i + 1)..Len(trace') :
                         trace'[j].op \notin {"call", "grab", "entry"}
    ]_vars

\* the first of two property subscribers asked to stop while another event was queued
C17_Witness ==
  /\ pc = "stopped" /\ ev.kind = "property" /\ pending > 0
  /\ Len(PropertyChain(ev.w, ev.atom)) = 2
  /\ Len(trace) = 1 /\ trace[1].b = "stop"

\* C18: emit(name) never blocks its caller: whatever the state of the pipe, including a
\* buffer that is full because the dispatcher has not read it yet, no call to emit is
\* left waiting for the dispatcher.
C18_EmitNeverBlocks ==
  wblocked = << >>

\* C19: after stop() returns, from any state, the key-binding, property-subscription,
\* creation-listener, destruction-listener and signal-listener registries and the focus
\* history are empty and so are the init and deinit handler lists, even when a deinit
\* handler raised.
C19_StopClearsEverything ==
  ev.kind = "stop" =>
    /\ key_handlers = EmptyDict /\ property_handlers = EmptyDict
    /\ create_handlers = << >> /\ destroy_handlers = EmptyDict
    /\ signal_handlers = EmptyDict /\ focus_history = << >>
    /\ init_handlers = << >> /\ deinit_handlers = << >>
    /\ ret = "ok"

\* stop() ran two deinit handlers, the first of which raised
C19_Witness ==
  /\ ev.kind = "stop" /\ Len(trace) = 2
  /\ trace[1].op = "deinit" /\ trace[1].b = "fault" /\ trace[2].op = "deinit"

\* C20: a destruction listener registered for window W is invoked at most once per
\* registration: when a destroy event for W has been processed and the next event
\* dispatched is again a destroy event for the same window identifier (nothing was
\* registered in between), that second event invokes no destruction listener.
C20_DestroyListenerFiresOnce ==
  [][(ev.kind = "destroy" /\ pc = "drain" /\ ev'.kind = "destroy" /\ ev'.w = ev.w)
       => Occurrences(trace', IsCall) = 0]_vars

\* a signal name with a registered listener is in the pipe
SignalWaiting ==
  \E i \in 1..Len(fifo) : Has(signal_handlers, fifo[i]) /\ signal_handlers[fifo[i]] # << >>

\* C21: if a signal name that has a registered listener has been emitted and the run loop
\* is not stopped or restarted, then under fair scheduling of the dispatcher's steps the
\* pipe is eventually read and the listener chains run, even when the display keeps
\* queueing new events while the connection is drained.
C21_SignalEventuallyRun ==
  (pc \in {"select", "drain", "fifo"} /\ SignalWaiting)
    ~> (ev.kind = "signals" \/ pc \in {"stopped", "restart", "aborted", "closed"})

\* the step dispatched a connection event
IsDispatch == ev'.kind \in {"keypress", "keyrelease", "create", "destroy", "property",
                           "focusin", "other"}

\* C22: connection events are dispatched in exactly the order they were queued (each
\* dispatch takes the oldest queued event and leaves the others in their order), and no
\* signal listener is run before every event queued on the connection has been
\* dispatched: the pipe is turned to only at a moment when no event is pending.
C22_DrainInOrderBeforeSignals ==
  [][/\ (pc = "drain" /\ IsDispatch)
          => /\ xqueue # << >> /\ took' = Head(xqueue) /\ xqueue' = Tail(xqueue)
             /\ pending' = pending - 1
     /\ ~IsDispatch => (took' = 0 /\ (xqueue' = xqueue \/ ev'.kind = "arrive"))
     /\ ev'.kind = "arrive" => \E m \in Marks : xqueue' = Append(xqueue, m)
     /\ ev'.kind = "signals" => pc = "fifo"
     /\ (pc # "fifo" /\ pc' = "fifo") => (pending' = 0 /\ xqueue' = << >>)
     /\ (pc = "drain" /\ pending' > 0 /\ pc' \notin {"stopped", "restart"}) => pc' = "drain"
    ]_vars

\* with the pipe readable, the older of two differently marked events was dispatched and
\* the younger one is still queued
C22_Witness ==
  /\ pc = "drain" /\ rfifoReady /\ fifo # << >>
  /\ took = 1 /\ xqueue = <<2>> /\ ev.kind = "property"

\* the user callbacks the step invoked, in order
RECURSIVE CallSeq(_)
CallSeq(t) ==
  IF t = << >> THEN << >>
  ELSE (IF Head(t).op = "call" THEN <<Head(t).f>> ELSE << >>) \o CallSeq(Tail(t))
\* the listeners of the names read from the pipe, name after name, in registration order
RECURSIVE ListenersOf(_)
ListenersOf(names) ==
  IF names = << >> THEN << >>
  ELSE Get(signal_handlers, Head(names), << >>) \o ListenersOf(Tail(names))

\* C23: for each signal name read from the pipe (no stop or restart requested meanwhile),
\* every listener registered for that name is invoked once, in registration order, also
\* after a listener before it raised an unrecognized fault; a name without a listener
\* invokes nothing.
C23_SignalChainRunsWhole ==
  [][(pc = "fifo" /\ ev'.kind = "signals" /\ ret' \notin {"stop", "restart"})
       => CallSeq(trace') = ListenersOf(fifo)]_vars

\* the callbacks of the chain a create, destroy or property event is dispatched to, as
\* registered when the dispatch begins
RECURSIVE EntryFuncs(_)
EntryFuncs(L) == IF L = << >> THEN << >> ELSE <<Head(L).f>> \o EntryFuncs(Tail(L))
WindowingChain ==
  IF ev'.kind = "create" THEN EntryFuncs(create_handlers)
  ELSE IF ev'.kind = "destroy" THEN Get(destroy_handlers, ev'.w, << >>)
  ELSE PropertyChain(ev'.w, ev'.atom)

\* C24: when one handler in the chain of a property-change, window-create or
\* window-destroy event raises an unrecognized fault (and the handlers otherwise
\* return), the remaining handlers of that chain are still invoked for the same event.
C24_WindowingHandlersIsolated ==
  [][(/\ pc = "drain" /\ ev'.kind \in {"create", "destroy", "property"}
      /\ ev'.state = PropertyNewValue
      /\ \A i \in 1..Len(trace') : trace'[i].op = "call" => trace'[i].b \in {"ok", "fault"})
       => CallSeq(trace') = WindowingChain]_vars

\* C25: a creation listener that raises an unrecognized fault during the startup replay
\* does not abort init(): the replay still runs the creation chain for every window of
\* the client list and init() completes (the dispatcher goes on to select()).
C25_ReplayFaultContained ==
  [][(/\ pc = "new" /\ ev'.kind = "init"
      /\ \A i \in 1..Len(trace') : trace'[i].op = "call" => trace'[i].b \in {"ok", "fault"})
       => /\ pc' = "select"
          /\ create_handlers # << >> =>
               \A j \in 1..Len(ev'.clients) :
                 \E i \in 1..Len(trace') :
                   trace'[i].op = "entry" /\ trace'[i].w = ev'.clients[j]]_vars

\* C26: for one non-echo property-change event on window W with property P (no stop or
\* restart requested during it), all subscribers registered for (W, P) are invoked in
\* registration order, then all subscribers registered globally for P in registration
\* order.
C26_WindowSpecificBeforeGlobal ==
  [][(pc = "drain" /\ ev'.kind = "property" /\ ev'.state = PropertyNewValue
        /\ ret' \notin {"stop", "restart"})
       => CallSeq(trace') = PropertyChain(ev'.w, ev'.atom)]_vars

\* handler f holds the binding of key k on window w
Holds(kh, w, k, f) == Has(kh, w) /\ Has(kh[w], k) /\ kh[w][k] = f

\* C27: when g was bound to a key-spec of a window after f (replacing f in the binding
\* map), f's removal capability removes nothing that belongs to g: every (mask, code)
\* entry held by another handler stays registered to it; and the removal capability of
\* the handler that holds all its entries works without fault.
C27_RemoveSparesReplacement ==
  [][(ev'.kind = "remove" /\ ev'.cap.kind = "key")
       => /\ \A w \in DOMAIN key_handlers : \A k \in DOMAIN key_handlers[w] :
               key_handlers[w][k] # ev'.cap.f
                 => Holds(key_handlers', w, k, key_handlers[w][k])
          /\ (\A i \in 1..Len(ev'.cap.keys) :
                Holds(key_handlers, ev'.cap.w, ev'.cap.keys[i], ev'.cap.f))
               => ret' = "ok"]_vars

\* window-scoped registrations, the destroy event of their window, and their removal
NextPurge ==
  \/ \E w \in Windows, f \in NewHandlers : BindKey(w, <<"a">>, f)
  \/ \E w \in Windows, props \in PropLists, f \in NewHandlers : OnPropertyChange(w, props, f)
  \/ \E c \in caps : Remove(c)
  \/ WMInit(<< >>)
  \/ Select
  \/ XArrive
  \/ \E w \in Windows : HandleDestroy(w)

SpecPurge == Init /\ [][NextPurge]_vars

\* C28: invoking the removal capability of a window-scoped key binding or property
\* subscription right after that window's destroy event has been processed (its entries
\* purged by the cleaner) raises no fault and leaves every registry unchanged.
C28_RemoveAfterDestroyIsNoop ==
  [][(/\ ev.kind = "destroy" /\ ev'.kind = "remove"
      /\ ev'.cap.kind \in {"key", "prop"} /\ ev'.cap.w = ev.w)
       => (ret' = "ok" /\ regs' = regs)]_vars

\* registrations of every kind made before init(), for windows, the root and globally,
\* against the cleaner
NextFrame ==
  \/ \E w \in KeyWindows, f \in NewHandlers : pc = "new" /\ BindKey(w, <<"a">>, f)
  \/ \E w \in Windows, f \in NewHandlers : pc = "new" /\ OnDestroy(w, f)
  \/ \E w \in Windows \cup {None}, props \in PropLists, f \in NewHandlers :
       pc = "new" /\ OnPropertyChange(w, props, f)
  \/ \E f \in NewHandlers : pc = "new" /\ OnCreate(FALSE, 0, f)
  \/ \E f \in NewHandlers : pc = "new" /\ OnSignal(1, f)
  \/ pc = "new" /\ GrabKeyboard(1, GrabSuccess)
  \/ pc = "new" /\ GrabPointer(1, GrabSuccess)
  \/ WMInit(<< >>)
  \/ Select
  \/ XArrive
  \/ \E w \in Windows : HandleDestroy(w)
  \/ \E w \in Windows : HandleFocusin(w)

SpecFrame == Init /\ [][NextFrame]_vars

\* C29: running the cleaner for window W (in a destroy event whose listeners call no
\* removal capability themselves) leaves unchanged everything not keyed by W: the key
\* bindings of every other window and of the root, the destruction listeners of other
\* windows, every global and other-window property subscription, the creation and signal
\* listener chains, both grab slots, and the relative order of the other windows in the
\* focus history; and it adds no entry.
C29_CleanerFrame ==
  [][(/\ pc = "drain" /\ ev'.kind = "destroy"
      /\ \A i \in 1..Len(trace') : ~IsRemoval(trace'[i]))
       => /\ DOMAIN key_handlers \ {ev'.w} = DOMAIN key_handlers' \ {ev'.w}
          /\ \A v \in DOMAIN key_handlers \ {ev'.w} : key_handlers'[v] = key_handlers[v]
          /\ DOMAIN destroy_handlers \ {ev'.w} = DOMAIN destroy_handlers' \ {ev'.w}
          /\ \A v \in DOMAIN destroy_handlers \ {ev'.w} :
               destroy_handlers'[v] = destroy_handlers[v]
          /\ DOMAIN property_handlers' \subseteq DOMAIN property_handlers
          /\ \A a \in DOMAIN property_handlers :
               LET others == DOMAIN property_handlers[a] \ {ev'.w}
                   left == IF Has(property_handlers', a)
                           THEN DOMAIN property_handlers'[a] \ {ev'.w} ELSE {}
               IN /\ left = others
                  /\ \A v \in others : property_handlers'[a][v] = property_handlers[a][v]
          /\ UNCHANGED <<create_handlers, signal_handlers, slots>>
          /\ Without(focus_history', ev'.w) = Without(focus_history, ev'.w)]_vars

\* a destroy event for window 1 was processed and the cleaner ran while a subscriber of
\* another window or a global one shared a property with it, or another window or the
\* root held a key binding, and window 2 was in the focus history
C29_Witness ==
  /\ ev.kind = "destroy" /\ ev.w = 1 /\ trace # << >> /\ trace[Len(trace)].op = "clean"
  /\ ~Has(key_handlers, 1) /\ ~InList(focus_history, 1)
  /\ \/ \E v \in {Root, 2} : Has(key_handlers, v)
     \/ \E a \in DOMAIN property_handlers : DOMAIN property_handlers[a] \cap {None, 2} # {}
  /\ InList(focus_history, 2)
====
